---- MODULE Spec2Model ----
(***************************************************************************)
(* The bank-promo scrapers (scrape_bdo, scrape_bpi, scrape_ew,              *)
(* scrape_chinabank) as one state machine.  One behaviour is one           *)
(* invocation of one orchestrator; every network request is one step whose *)
(* outcome (transport failure, JSON body, HTML page) is chosen by the      *)
(* environment.                                                            *)
(*                                                                         *)
(* Encoding of Python values:                                              *)
(*   optional value : <<>> is None / key absent, <<v>> is the value v      *)
(*   str            : a sequence of one-character strings; a markup tag of *)
(*                    an HTML fragment is one token of the set Tags        *)
(*   exception      : pc = "raised" and error = [type, site]               *)
(***************************************************************************)
EXTENDS Integers, Sequences, FiniteSets, TLC

\* ---------------------------------------------------------------- bounds
MaxCategories == 2   \* category ids a categories response may hold
MaxPages == 2        \* largest total_pages a catalog response reports
MaxItems == 2        \* items after which the pages fetched hold no further object
MaxUrls == 4         \* <loc> entries of a sitemap
MaxLinks == 2        \* hrefs the category pages hold in total
NumCbankCategories == 2  \* category pages crawled (the list of the code has 10)

\* ------------------------------------------------------- program constants
SampleSize == 3      \* scrape_ew keeps the first 3 promo URLs

\* ------------------------------------------------------------ value helpers
None == <<>>
Some(v) == <<v>>
IsNone(o) == o = <<>>
Get(o) == o[1]

RunIds == {"uuid-a", "uuid-b"}
Banks == {"bdo", "bpi", "eastwest", "chinabank"}

NoError == [type |-> "none", site |-> "none"]
Err(t, s) == [type |-> t, site |-> s]

\* The two ways a JSON fetch fails: transport/HTTP status, or a non-JSON body.
FetchErrors == {"RuntimeError", "ValueError"}

\* ----------------------------------------------------------- text helpers
Whitespace == {" ", "\n"}
Tags == {"<p>", "<br>"}

RECURSIVE LStrip(_)
LStrip(s) ==
  IF s = <<>> THEN <<>>
  ELSE IF Head(s) \in Whitespace THEN LStrip(Tail(s)) ELSE s

RECURSIVE RStrip(_)
RStrip(s) ==
  IF s = <<>> THEN <<>>
  ELSE IF s[Len(s)] \in Whitespace THEN RStrip(SubSeq(s, 1, Len(s) - 1)) ELSE s

\* str.strip()
Strip(s) == RStrip(LStrip(s))

\* sep.join(parts)
RECURSIVE Join(_, _)
Join(sep, parts) ==
  IF parts = <<>> THEN <<>>
  ELSE IF Len(parts) = 1 THEN parts[1]
  ELSE parts[1] \o sep \o Join(sep, Tail(parts))

\* The text nodes of a fragment: the maximal runs of non-tag tokens.
RECURSIVE TextNodes(_, _)
TextNodes(html, cur) ==
  IF html = <<>> THEN (IF cur = <<>> THEN <<>> ELSE <<cur>>)
  ELSE IF Head(html) \in Tags
       THEN (IF cur = <<>> THEN <<>> ELSE <<cur>>) \o TextNodes(Tail(html), <<>>)
       ELSE TextNodes(Tail(html), Append(cur, Head(html)))

RECURSIVE StrippedNonEmpty(_)
StrippedNonEmpty(nodes) ==
  IF nodes = <<>> THEN <<>>
  ELSE IF Strip(Head(nodes)) = <<>> THEN StrippedNonEmpty(Tail(nodes))
       ELSE <<Strip(Head(nodes))>> \o StrippedNonEmpty(Tail(nodes))

\* Tag.get_text(separator="\n", strip=True)
get_text(html) == Join(<<"\n">>, StrippedNonEmpty(TextNodes(html, <<>>)))

\* html_to_text(html): BeautifulSoup(html or "").get_text("\n", strip=True);
\* the argument is an optional str.
html_to_text(html) == get_text(IF IsNone(html) THEN <<>> ELSE Get(html))

VARIABLES
  pc,              \* position of the running orchestrator
  bank,            \* which orchestrator was invoked
  scrape_id,       \* the run identifier generated at the start
  error,           \* the exception that ended the invocation, if any
  promos,          \* the list the orchestrator returns (built so far)
  issued,          \* kinds of request issued so far in this invocation
  bearer_headers,  \* optional Authorization header value
  ids,             \* optional list: the ids extracted by category discovery
  i,               \* index of the outer loop in progress
  j,               \* index of the inner loop in progress
  pages,           \* total_pages learnt for the current category
  page_log,        \* requests and sleeps of the current category, in order
  all_items,       \* (item_type, item_id) pairs collected so far
  campaign_list, reward_list,   \* the partition of all_items
  campaign_data, reward_data,   \* detail records fetched so far
  detail_requests, \* number of detail requests issued
  detail_failures, \* number of detail requests that failed
  detail_response, \* optional: the latest detail response (`data` of the detail loops)
  promo_urls,      \* surviving sitemap URLs (sitemap adapters)
  html_content,    \* what get_html_content returned in the latest pass of a page loop
  promo,           \* optional: the loop-local variable promo of scrape_bpi / scrape_ew
  processed,       \* positions of promo_urls / links whose record was built
  promo_url_content, \* what get_html_content returned for the current category page
  promo_hrefs,     \* hrefs of the current category page (chinabank)
  links_seen       \* number of hrefs discovered so far (chinabank)

vars == <<pc, bank, scrape_id, error, promos, issued, bearer_headers, ids, i, j,
          pages, page_log, all_items, campaign_list, reward_list, campaign_data,
          reward_data, detail_requests, detail_failures, detail_response,
          promo_urls, html_content, promo, processed, promo_url_content,
          promo_hrefs, links_seen>>

bdo_vars == <<bearer_headers, ids, pages, page_log, all_items, campaign_list,
              reward_list, campaign_data, reward_data, detail_requests,
              detail_failures,
                 detail_response>>
site_vars == <<promo_urls, html_content, promo, processed, promo_url_content,
              promo_hrefs, links_seen>>

Init ==
  /\ pc = "idle"
  /\ bank = "none"
  /\ scrape_id = "none"
  /\ error = NoError
  /\ promos = <<>>
  /\ issued = {}
  /\ bearer_headers = None
  /\ ids = None
  /\ i = 0
  /\ j = 0
  /\ pages = 0
  /\ page_log = <<>>
  /\ all_items = <<>>
  /\ campaign_list = <<>>
  /\ reward_list = <<>>
  /\ campaign_data = <<>>
  /\ reward_data = <<>>
  /\ detail_requests = 0
  /\ detail_failures = 0
  /\ detail_response = None
  /\ promo_urls = <<>>
  /\ html_content = None
  /\ promo = None
  /\ processed = <<>>
  /\ promo_url_content = None
  /\ promo_hrefs = <<>>
  /\ links_seen = 0

\* The exception `t` raised in function `s` leaves the orchestrator.
Raise(t, s) ==
  /\ pc' = "raised"
  /\ error' = Err(t, s)

\* uuid.uuid4() at the first line of every orchestrator.
FirstPc(b) ==
  CASE b = "bdo" -> "token"
    [] b = "chinabank" -> "category"
    [] OTHER -> "sitemap"

Start ==
  /\ pc = "idle"
  /\ \E b \in Banks, id \in RunIds :
       /\ bank' = b
       /\ scrape_id' = id
       /\ pc' = FirstPc(b)
  /\ UNCHANGED <<error, promos, issued, i, j>>
  /\ UNCHANGED bdo_vars
  /\ UNCHANGED site_vars

\* ======================================================================
\*  BDO: authenticated paginated-catalog adapter (scraper_bdo.py)
\* ======================================================================

\* A JSON object field read with a default distinguishes three cases:
\* the key is absent, the value is null (None), or the value is <<v>>.
Absent == <<"absent", "absent">>
\* d.get(k)
PyGet(f) == IF f = Absent THEN None ELSE f
\* d.get(k, default)
PyGetOr(f, default) == IF f = Absent THEN Some(default) ELSE f

UpTo(S, n) == UNION {[1..k -> S] : k \in 0..n}

\* ---- token
\* The JSON objects the token endpoint may answer with.
TokenBodies == {[bearer_token |-> Some("tok")], [bearer_token |-> Absent]}

\* Lines 142-154: the Authorization header built from the token response;
\* a missing field is formatted as the text None.
get_bdo_bearer_header(body) ==
  <<"Bearer ", IF IsNone(PyGet(body.bearer_token)) THEN "None"
               ELSE Get(PyGet(body.bearer_token))>>

BdoToken ==
  /\ pc = "token"
  /\ issued' = issued \cup {"token"}
  /\ \/ \E e \in FetchErrors :
          /\ Raise(e, "fetch_json_post")
          /\ UNCHANGED bearer_headers
     \/ \E body \in TokenBodies :
          /\ bearer_headers' = Some(get_bdo_bearer_header(body))
          /\ pc' = "categories"
          /\ UNCHANGED error
  /\ UNCHANGED <<bank, scrape_id, promos, ids, i, j, pages, page_log, all_items,
                 campaign_list, reward_list, campaign_data, reward_data,
                 detail_requests, detail_failures,
                 detail_response>>
  /\ UNCHANGED site_vars

\* ---- category discovery
\* The "data" list of a categories response: the p-th object carries id p or
\* has no id field.
CategoryResponses ==
  UNION {{[p \in 1..k |-> IF f[p] THEN Some(p) ELSE Absent] :
            f \in [1..k -> BOOLEAN]} : k \in 0..MaxCategories}

\* Line 177: ids = [item["id"] for item in data if "id" in item]
RECURSIVE CategoryIds(_)
CategoryIds(data) ==
  IF data = <<>> THEN <<>>
  ELSE IF Head(data) = Absent THEN CategoryIds(Tail(data))
       ELSE <<Get(Head(data))>> \o CategoryIds(Tail(data))

\* Variant: an empty id list is returned like any other.
NeverRaise(found) == FALSE

\* Lines 180-182: `if not ids: raise ValueError`
CategoriesRaise(found) == found = <<>>

\* get_bdo_promo_categories, called at line 211 of get_bdo_promo_items.
BdoCategories ==
  /\ pc = "categories"
  /\ issued' = issued \cup {"categories"}
  /\ \/ \E e \in FetchErrors :
          /\ Raise(e, "fetch_json_get")
          /\ UNCHANGED <<ids, i>>
     \/ \E data \in CategoryResponses :
          /\ ids' = Some(CategoryIds(data))
          /\ IF CategoriesRaise(CategoryIds(data))
             THEN /\ Raise("ValueError", "get_bdo_promo_categories")
                  /\ UNCHANGED i
             ELSE /\ pc' = "first_page"
                  /\ i' = 1
                  /\ UNCHANGED error
  /\ UNCHANGED <<bank, scrape_id, promos, bearer_headers, j, pages, page_log,
                 all_items, campaign_list, reward_list, campaign_data,
                 reward_data, detail_requests, detail_failures,
                 detail_response>>
  /\ UNCHANGED site_vars

\* category_ids of get_bdo_promo_items (line 211)
category_ids == IF IsNone(ids) THEN <<>> ELSE Get(ids)

\* ---- item discovery
GetPage(n) == [op |-> "get", page |-> n]
Sleep == [op |-> "sleep", page |-> 0]

\* The "meta" field of a catalog page response, as the first request of a
\* category reads it (line 224): absent, null, or an object whose total_pages
\* is absent, null, an integer, or a string.
Metas ==
  {Absent, None}
    \cup {Some([total_pages |-> Absent]), Some([total_pages |-> None])}
    \cup {Some([total_pages |-> Some([int |-> TRUE, n |-> n])]) : n \in 0..MaxPages}
    \cup {Some([total_pages |-> Some([int |-> FALSE, n |-> 0])])}

\* Line 224: data.get("meta", {}).get("total_pages", 0), and line 231:
\* range(1, pages + 1).  The result is the exception the two lines raise, or
\* the number of pages.  None of AttributeError (.get on None) and TypeError
\* (None + 1 or str + 1, outside the try block) is caught by the except clause
\* of line 226.
TotalPages(meta) ==
  LET m == PyGetOr(meta, [total_pages |-> Absent]) IN
  IF IsNone(m) THEN [raises |-> "AttributeError", n |-> 0]
  ELSE LET t == PyGetOr(Get(m).total_pages, [int |-> TRUE, n |-> 0]) IN
       IF IsNone(t) \/ ~Get(t).int THEN [raises |-> "TypeError", n |-> 0]
       ELSE [raises |-> "none", n |-> Get(t).n]

ItemTypes == {"Campaign", "Reward::Campaign", "Voucher"}

\* The objects of the "data" list of a catalog page: an item_type (or none) and
\* an item_id (or none).  Item ids are handed out in discovery order: the k-th
\* object of a page read when `seen` items are collected has id 10 * seen + k.
ItemId(seen, k) == 10 * seen + k
EntryKinds == {[t |-> Some(ty), id |-> TRUE] : ty \in ItemTypes}
                \cup {[t |-> None, id |-> TRUE], [t |-> Some("Campaign"), id |-> FALSE]}
PageEntries(kinds, seen) ==
  [k \in 1..Len(kinds) |->
     [item_type |-> kinds[k].t,
      item_id |-> IF kinds[k].id THEN Some(ItemId(seen, k)) ELSE None]]

\* Lines 235-239: the (item_type, item_id) pairs of the objects in which both
\* fields are truthy.
RECURSIVE PageItems(_)
PageItems(data) ==
  IF data = <<>> THEN <<>>
  ELSE IF IsNone(Head(data).item_type) \/ IsNone(Head(data).item_id)
       THEN PageItems(Tail(data))
       ELSE <<[item_type |-> Get(Head(data).item_type),
               item_id |-> Get(Head(data).item_id)]>> \o PageItems(Tail(data))

\* The number of objects the "data" list of the next page may hold (line 237)
\* when `seen` items are collected: a page is never refused, and it holds no
\* object once MaxItems items or more are collected.
Room(seen) == IF seen < MaxItems THEN MaxItems - seen ELSE 0

\* Variant: range(1, pages) stops one page early.
LastPageOffByOne(total) == total - 1

\* Line 231: range(1, pages + 1) ends with page `pages`.
LastPage(total) == total

\* Variant: no filter on the item type.
KeepAll(items, ty) == items

\* Lines 248-249: the partition by item type.
OfType(items, ty) == SelectSeq(items, LAMBDA it : it.item_type = ty)
CampaignList(items) == OfType(items, "Campaign")
RewardList(items) == OfType(items, "Reward::Campaign")

\* Where scrape_bdo goes on once both detail loops have reached index k of the
\* list they are in: the next campaign, the first reward, or normalization.
AfterCampaigns(k, cl, rl) ==
  IF k <= Len(cl) THEN "campaigns" ELSE IF rl # <<>> THEN "rewards" ELSE "parse"
AfterRewards(k, rl) == IF k <= Len(rl) THEN "rewards" ELSE "parse"

\* The end of one pass of the category loop (line 218): the next category, or
\* the partition and the return of get_bdo_promo_items (lines 247-253).
NextCategory(items) ==
  IF i < Len(category_ids)
  THEN /\ pc' = "first_page"
       /\ i' = i + 1
       /\ UNCHANGED <<campaign_list, reward_list>>
  ELSE /\ campaign_list' = CampaignList(items)
       /\ reward_list' = RewardList(items)
       /\ pc' = AfterCampaigns(1, CampaignList(items), RewardList(items))
       /\ i' = 1

\* Lines 219-228: the first request of category i, which learns total_pages.
BdoFirstPage ==
  /\ pc = "first_page"
  /\ issued' = issued \cup {"page"}
  /\ page_log' = <<GetPage(1)>>
  /\ \/ \E e \in FetchErrors :
          /\ Raise(e, "fetch_json_get")
          /\ UNCHANGED <<i, j, pages, campaign_list, reward_list>>
     \/ \E meta \in Metas :
          LET tp == TotalPages(meta) IN
          IF tp.raises # "none"
          THEN /\ Raise(tp.raises, "get_bdo_promo_items")
               /\ UNCHANGED <<i, j, pages, campaign_list, reward_list>>
          ELSE /\ pages' = tp.n
               /\ j' = 1
               /\ UNCHANGED error
               /\ IF 1 <= LastPage(tp.n)
                  THEN /\ pc' = "page"
                       /\ UNCHANGED <<i, campaign_list, reward_list>>
                  ELSE NextCategory(all_items)
  /\ UNCHANGED <<bank, scrape_id, promos, bearer_headers, ids, all_items,
                 campaign_data, reward_data, detail_requests, detail_failures,
                 detail_response>>
  /\ UNCHANGED site_vars

\* Lines 231-245: the request of page j of category i, the extraction of its
\* items and the delay.
BdoPage ==
  /\ pc = "page"
  /\ UNCHANGED issued
  /\ \/ \E e \in FetchErrors :
          /\ Raise(e, "fetch_json_get")
          /\ page_log' = Append(page_log, GetPage(j))
          /\ UNCHANGED <<i, j, all_items, campaign_list, reward_list>>
     \/ \E kinds \in UpTo(EntryKinds, Room(Len(all_items))) :
          LET items == all_items \o PageItems(PageEntries(kinds, Len(all_items))) IN
          /\ all_items' = items
          /\ page_log' = page_log \o <<GetPage(j), Sleep>>
          /\ j' = IF j < LastPage(pages) THEN j + 1 ELSE 1
          /\ UNCHANGED error
          /\ IF j < LastPage(pages)
             THEN /\ pc' = "page"
                  /\ UNCHANGED <<i, campaign_list, reward_list>>
             ELSE NextCategory(items)
  /\ UNCHANGED <<bank, scrape_id, promos, bearer_headers, ids, pages,
                 campaign_data, reward_data, detail_requests, detail_failures,
                 detail_response>>
  /\ UNCHANGED site_vars

\* ---- detail fetch, campaigns
EmptyLanding == [headline |-> Absent, sub_headline |-> Absent,
                 body_text |-> Absent, additional_sections |-> Absent]
EmptyEnrolment == [body_text |-> Absent]
EmptyDisplay == [landing_page |-> Absent, enrolment_page |-> Absent]
EmptyCampaign == [id |-> Absent, name |-> Absent, display_properties |-> Absent]

\* The JSON bodies a campaign detail request for `id` may be answered with.
CampaignFull(id) ==
  [data |-> Some(
     [id |-> Some(id), name |-> Some(<<"a">>),
      display_properties |-> Some(
        [landing_page |-> Some(
           [headline |-> Some(<<"h">>), sub_headline |-> Some(<<>>),
            body_text |-> Some(<<"<p>", "b", "<br>", " ", "c", "<p>">>),
            additional_sections |->
              Some(<<Some([body_text |-> Some(<<"s">>)]), None>>)]),
         enrolment_page |-> Some([body_text |-> Some(<<" ">>)])])])]
CampaignNoName(id) ==
  [data |-> Some([id |-> Some(id), name |-> Absent, display_properties |-> Absent])]
CampaignNullData == [data |-> None]
CampaignBlank ==
  [data |-> Some(
     [id |-> Absent, name |-> Some(<<>>),
      display_properties |-> Some(
        [landing_page |-> Some(
           [headline |-> Some(<<>>), sub_headline |-> Some(<<" ">>),
            body_text |-> None, additional_sections |-> Absent]),
         enrolment_page |-> Absent])])]
CampaignBodies(id) ==
  {CampaignFull(id), CampaignNoName(id), CampaignNullData, CampaignBlank}

CampaignLink(campaign_id) ==
  <<"https://www.deals.bdo.com.ph/treat-welcome/", ToString(campaign_id)>>

\* Lines 279-290: the record built from one campaign detail response, or the
\* AttributeError of a .get on None.
CampaignOutput(body, campaign_id) ==
  LET jd == PyGetOr(body.data, EmptyCampaign) IN
  IF IsNone(jd) THEN [raises |-> "AttributeError", output |-> None]
  ELSE
  LET dp == PyGetOr(Get(jd).display_properties, EmptyDisplay) IN
  IF IsNone(dp) THEN [raises |-> "AttributeError", output |-> None]
  ELSE
  LET lp == PyGetOr(Get(dp).landing_page, EmptyLanding)
      ep == PyGetOr(Get(dp).enrolment_page, EmptyEnrolment) IN
  IF IsNone(lp) \/ IsNone(ep) THEN [raises |-> "AttributeError", output |-> None]
  ELSE
  [raises |-> "none",
   output |-> Some(
     [id |-> PyGet(Get(jd).id),
      name |-> PyGet(Get(jd).name),
      headline |-> PyGet(Get(lp).headline),
      sub_headline |-> PyGet(Get(lp).sub_headline),
      body_text |-> PyGet(Get(lp).body_text),
      enrolment_page_body_text |-> PyGet(Get(ep).body_text),
      additional_sections |-> PyGetOr(Get(lp).additional_sections, <<>>),
      link |-> CampaignLink(campaign_id)])]

\* Variant: the detail fetch is not guarded and its exception propagates.
PropagateDetailError(e, site, next) == [pc |-> "raised", error |-> Err(e, site)]

\* Lines 273-275 and 315-317: `except Exception` around the detail fetch logs
\* and continues with the next item.  The result is where the orchestrator
\* stands after a fetch that failed with `e`, `next` being the next pass.
CatchDetailError(e, site, next) == [pc |-> next, error |-> NoError]

\* Lines 269-292: one pass of the campaign loop.
BdoCampaignDetail ==
  /\ pc = "campaigns"
  /\ issued' = issued \cup {"campaign"}
  /\ detail_requests' = detail_requests + 1
  /\ i' = i + 1
  /\ LET campaign_id == campaign_list[i].item_id
         next == AfterCampaigns(i + 1, campaign_list, reward_list) IN
     \/ \E e \in FetchErrors :
          LET h == CatchDetailError(e, "get_bdo_campaign_details", next) IN
          /\ detail_failures' = detail_failures + 1
          /\ pc' = h.pc
          /\ error' = h.error
          /\ UNCHANGED <<campaign_data, detail_response>>
     \/ \E body \in CampaignBodies(campaign_id) :
          LET r == CampaignOutput(body, campaign_id) IN
          /\ detail_response' = Some(body)
          /\ UNCHANGED detail_failures
          /\ IF r.raises # "none"
             THEN /\ Raise(r.raises, "get_bdo_campaign_details")
                  /\ UNCHANGED campaign_data
             ELSE /\ campaign_data' = Append(campaign_data, Get(r.output))
                  /\ pc' = next
                  /\ UNCHANGED error
  /\ UNCHANGED <<bank, scrape_id, promos, bearer_headers, ids, j, pages, page_log,
                 all_items, campaign_list, reward_list, reward_data>>
  /\ UNCHANGED site_vars

\* ---- detail fetch, rewards
EmptyReward == [id |-> Absent, name |-> Absent, description |-> Absent,
                accordions |-> Absent]

\* The JSON bodies a reward detail request for `id` may be answered with.
RewardFull(id) ==
  [data |-> Some(
     [id |-> Some(id), name |-> Some(<<"r">>),
      description |-> Some(<<"<p>", "d", "<p>">>),
      accordions |-> Some(<<Some([title |-> Some(<<"t">>), body |-> Some(<<"<br>", "x">>)]),
                            None,
                            Some([title |-> Absent, body |-> Some(<<"y">>)])>>)])]
RewardNullName(id) ==
  [data |-> Some([id |-> Some(id), name |-> None, description |-> Some(<<"d">>),
                  accordions |-> None])]
RewardNullData == [data |-> None]
RewardBlank ==
  [data |-> Some([id |-> Absent, name |-> Some(<<" ">>), description |-> None,
                  accordions |-> Absent])]
RewardBodies(id) == {RewardFull(id), RewardNullName(id), RewardNullData, RewardBlank}

\* Lines 331-338: one accordion flattened into its title and body keys; an entry
\* that is no object gets an empty title and an empty body.
FlattenAccordion(accordion) ==
  IF IsNone(accordion) THEN [title |-> Some(<<>>), body |-> Some(<<>>)]
  ELSE [title |-> PyGetOr(Get(accordion).title, <<>>),
        body |-> PyGetOr(Get(accordion).body, <<>>)]

\* Variant: enumerate(accordions) counts from 0.
AccordionKeyFromZero(pos) == pos - 1

\* Line 331: enumerate(accordions, start=1) gives the accordion at position
\* `pos` (counted from 1) the index pos.
AccordionKey(pos) == pos

\* Lines 321-340: the record built from one reward detail response, or the
\* AttributeError of a .get on None.  The keys accordion_{idx}_title and
\* accordion_{idx}_body are the function `accordions` of the record: idx is in
\* its domain when the two keys are in the dict.
RewardOutput(body) ==
  LET jd == PyGetOr(body.data, EmptyReward) IN
  IF IsNone(jd) THEN [raises |-> "AttributeError", output |-> None]
  ELSE
  LET acc == PyGet(Get(jd).accordions)
      accordions == IF IsNone(acc) THEN <<>> ELSE Get(acc) IN
  [raises |-> "none",
   output |-> Some(
     [id |-> PyGet(Get(jd).id),
      name |-> PyGet(Get(jd).name),
      description |-> PyGet(Get(jd).description),
      accordions |->
        [idx \in {AccordionKey(pos) : pos \in 1..Len(accordions)} |->
           FlattenAccordion(
             accordions[CHOOSE pos \in 1..Len(accordions) : AccordionKey(pos) = idx])]])]

\* Lines 311-340: one pass of the reward loop.
BdoRewardDetail ==
  /\ pc = "rewards"
  /\ issued' = issued \cup {"reward"}
  /\ detail_requests' = detail_requests + 1
  /\ j' = j + 1
  /\ LET reward_id == reward_list[j].item_id
         next == AfterRewards(j + 1, reward_list) IN
     \/ \E e \in FetchErrors :
          LET h == CatchDetailError(e, "get_bdo_reward_details", next) IN
          /\ detail_failures' = detail_failures + 1
          /\ pc' = h.pc
          /\ error' = h.error
          /\ UNCHANGED <<reward_data, detail_response>>
     \/ \E body \in RewardBodies(reward_id) :
          LET r == RewardOutput(body) IN
          /\ detail_response' = Some(body)
          /\ UNCHANGED detail_failures
          /\ IF r.raises # "none"
             THEN /\ Raise(r.raises, "get_bdo_reward_details")
                  /\ UNCHANGED reward_data
             ELSE /\ reward_data' = Append(reward_data, Get(r.output))
                  /\ pc' = next
                  /\ UNCHANGED error
  /\ UNCHANGED <<bank, scrape_id, promos, bearer_headers, ids, i, pages, page_log,
                 all_items, campaign_list, reward_list, campaign_data>>
  /\ UNCHANGED site_vars

\* ---- normalization
\* utilities/classes.py: the record every adapter emits.  scrape_date
\* (date.today()) is the same for every record and is left out.
BankPromo(sid, name, url, content) ==
  [scrape_id |-> sid, bank_name |-> name, promo_url |-> url, promo_content |-> content]

\* f"{x}" of an optional id.
IdText(id) == IF IsNone(id) THEN "None" ELSE ToString(Get(id))

RewardsUrl(id) == <<"https://www.deals.bdo.com.ph/rewards/", IdText(id)>>

\* "\n\n".join([part for part in fields if part.strip()]) over a list whose
\* elements may be None: the join, or the AttributeError of None.strip().
RECURSIVE KeptParts(_)
KeptParts(fields) ==
  IF fields = <<>> THEN <<>>
  ELSE IF Strip(Get(Head(fields))) = <<>> THEN KeptParts(Tail(fields))
       ELSE <<Get(Head(fields))>> \o KeptParts(Tail(fields))

JoinFields(fields) ==
  IF \E k \in 1..Len(fields) : IsNone(fields[k])
  THEN [raises |-> "AttributeError", content |-> <<>>]
  ELSE [raises |-> "none", content |-> Join(<<"\n", "\n">>, KeptParts(fields))]

\* Lines 368-370: the body text of every additional section that is an object.
RECURSIVE SectionFields(_)
SectionFields(sections) ==
  IF sections = <<>> THEN <<>>
  ELSE IF IsNone(Head(sections)) THEN SectionFields(Tail(sections))
       ELSE <<Some(html_to_text(PyGet(PyGetOr(Get(Head(sections)).body_text, <<>>))))>>
              \o SectionFields(Tail(sections))

\* Lines 359-373: the content of one campaign record, or the exception raised:
\* TypeError when additional_sections is None, AttributeError when name,
\* headline or sub_headline is None.
CampaignContent(entry) ==
  IF IsNone(entry.additional_sections)
  THEN [raises |-> "TypeError", content |-> <<>>]
  ELSE JoinFields(<<entry.name, entry.headline, entry.sub_headline,
                    Some(html_to_text(entry.body_text)),
                    Some(html_to_text(entry.enrolment_page_body_text))>>
                  \o SectionFields(Get(entry.additional_sections)))

\* Lines 375-383 and 423-431: the id the record URL is built from.
RecordUrlId(entry) == entry.id

\* Variant: every record gets an identifier of its own.
FreshRunId(uid) == IF uid = "uuid-a" THEN "uuid-b" ELSE "uuid-a"

\* The scrape_id every adapter passes to BankPromo(...) for a record of run
\* `uid` (scraper_bdo.py lines 377 and 425, and the URL and link loops).
RecordRunId(uid) == uid

\* parse_bdo_campaign_output, lines 357-385.
RECURSIVE parse_bdo_campaign_output(_, _)
parse_bdo_campaign_output(raw_data, unique_id) ==
  IF raw_data = <<>> THEN [raises |-> "none", promos |-> <<>>]
  ELSE LET c == CampaignContent(Head(raw_data)) IN
       IF c.raises # "none" THEN [raises |-> c.raises, promos |-> <<>>]
       ELSE LET rest == parse_bdo_campaign_output(Tail(raw_data), unique_id) IN
            [raises |-> rest.raises,
             promos |-> <<BankPromo(RecordRunId(unique_id), "bdo",
                                    RewardsUrl(RecordUrlId(Head(raw_data))), c.content)>>
                          \o rest.promos]

\* Lines 412-418: the accordion fields; the title is formatted with f"{title}",
\* so a None title reads None.
NoneText == <<"N", "o", "n", "e">>
RECURSIVE AccordionFieldsFrom(_, _)
AccordionFieldsFrom(accordions, idx) ==
  IF idx \notin DOMAIN accordions THEN <<>>
  ELSE LET title == accordions[idx].title
           body == html_to_text(accordions[idx].body)
           shown == IF IsNone(title) THEN NoneText ELSE Get(title)
           truthy == (~IsNone(title) /\ Get(title) # <<>>) \/ body # <<>> IN
       (IF truthy THEN <<Some(Strip(shown \o <<"\n">> \o body))>> ELSE <<>>)
         \o AccordionFieldsFrom(accordions, idx + 1)

\* Lines 412-418: the loop starts at idx = 1 and ends at the first idx whose
\* body key is not in the record.
AccordionFields(accordions) == AccordionFieldsFrom(accordions, 1)

\* Lines 406-421: the content of one reward record, or the AttributeError
\* raised when name is None.
RewardContent(entry) ==
  JoinFields(<<entry.name, Some(html_to_text(entry.description))>>
             \o AccordionFields(entry.accordions))

\* parse_bdo_reward_output, lines 404-433.
RECURSIVE parse_bdo_reward_output(_, _)
parse_bdo_reward_output(raw_data, unique_id) ==
  IF raw_data = <<>> THEN [raises |-> "none", promos |-> <<>>]
  ELSE LET c == RewardContent(Head(raw_data)) IN
       IF c.raises # "none" THEN [raises |-> c.raises, promos |-> <<>>]
       ELSE LET rest == parse_bdo_reward_output(Tail(raw_data), unique_id) IN
            [raises |-> rest.raises,
             promos |-> <<BankPromo(RecordRunId(unique_id), "bdo",
                                    RewardsUrl(RecordUrlId(Head(raw_data))), c.content)>>
                          \o rest.promos]

\* Variant: the reward records are put first.
RewardsFirst(campaign_promos, reward_promos) == reward_promos \o campaign_promos

\* Line 465: all_promos = campaign_promos + reward_promos
MergePromos(campaign_promos, reward_promos) == campaign_promos \o reward_promos

\* Lines 459-468 of scrape_bdo: both lists are normalized, merged and returned.
BdoParse ==
  /\ pc = "parse"
  /\ LET c == parse_bdo_campaign_output(campaign_data, scrape_id)
         r == parse_bdo_reward_output(reward_data, scrape_id) IN
     IF c.raises # "none"
     THEN /\ Raise(c.raises, "parse_bdo_campaign_output")
          /\ UNCHANGED promos
     ELSE IF r.raises # "none"
     THEN /\ Raise(r.raises, "parse_bdo_reward_output")
          /\ UNCHANGED promos
     ELSE /\ promos' = MergePromos(c.promos, r.promos)
          /\ pc' = "returned"
          /\ UNCHANGED error
  /\ UNCHANGED <<bank, scrape_id, issued, i, j>>
  /\ UNCHANGED bdo_vars
  /\ UNCHANGED site_vars

\* ======================================================================
\*  Sitemap-filtered adapters (scraper_bpi.py, scraper_ew.py)
\* ======================================================================

PromoPrefix(b) ==
  IF b = "bpi" THEN "https://www.bpi.com.ph/personal/rewards-and-promotions/"
  ELSE "https://www.eastwestbanker.com/promos/"
SiteRoot(b) ==
  IF b = "bpi" THEN "https://www.bpi.com.ph/" ELSE "https://www.eastwestbanker.com/"

\* The <loc> values of a sitemap: the k-th is a promo page or another page of
\* the site.  A URL is its prefix followed by the rest of its path.
Sitemaps(b) ==
  UNION {{[k \in 1..n |-> IF f[k] THEN <<PromoPrefix(b), "promo-" \o ToString(k)>>
                          ELSE <<SiteRoot(b), "page-" \o ToString(k)>>] :
            f \in [1..n -> BOOLEAN]} : n \in 0..MaxUrls}

\* scraper_bpi.py lines 69-72 and scraper_ew.py line 59: the URLs that start
\* with the promo prefix; scrape_ew keeps the first SampleSize of them.
FilterPromoUrls(b, urls) ==
  LET kept == SelectSeq(urls, LAMBDA u : u[1] = PromoPrefix(b)) IN
  IF b = "eastwest" /\ Len(kept) > SampleSize THEN SubSeq(kept, 1, SampleSize)
  ELSE kept

\* get_sitemap_urls and the filter: the first steps of scrape_bpi / scrape_ew.
SiteSitemap ==
  /\ pc = "sitemap"
  /\ issued' = issued \cup {"sitemap"}
  /\ \/ \E e \in FetchErrors :
          /\ Raise(e, "get_sitemap_urls")
          /\ UNCHANGED <<promo_urls, i>>
     \/ \E urls \in Sitemaps(bank) :
          /\ promo_urls' = FilterPromoUrls(bank, urls)
          /\ i' = 1
          /\ pc' = IF FilterPromoUrls(bank, urls) = <<>> THEN "returned" ELSE "url"
          /\ UNCHANGED error
  /\ UNCHANGED <<bank, scrape_id, promos, j, html_content, promo, processed,
                 promo_url_content, promo_hrefs, links_seen>>
  /\ UNCHANGED bdo_vars

\* What get_html_content returns: None when the fetch failed, else the page.
\* Of a page only the content anchor matters: missing, or holding markup.
HtmlPages == {[anchor |-> None],
              [anchor |-> Some(<<>>)],
              [anchor |-> Some(<<"<p>", " ", "x", "<p>">>)]}
FetchedHtml == {None} \cup {Some(h) : h \in HtmlPages}

\* Variant: a failed extraction gives the empty text.
EmptyTextOnFailure(html) ==
  IF IsNone(html) \/ IsNone(Get(html).anchor)
  THEN [str |-> TRUE, text |-> <<>>]
  ELSE [str |-> TRUE, text |-> get_text(Get(Get(html).anchor))]

\* get_bpi_content / get_ew_content / extract_cbank_content: the text of the
\* anchor element; any exception (html is None, anchor not found) is caught
\* and the empty list is returned.
ExtractContent(html) ==
  IF IsNone(html) \/ IsNone(Get(html).anchor)
  THEN [str |-> FALSE, text |-> <<>>]
  ELSE [str |-> TRUE, text |-> get_text(Get(Get(html).anchor))]

\* utilities/classes.py: BankPromo(...) validates its fields; promo_content
\* must be a str and promo_url an absolute http(s) URL.
HttpUrl(url) == url[1] \in {PromoPrefix("bpi"), PromoPrefix("eastwest"),
                            SiteRoot("bpi"), SiteRoot("eastwest"),
                            "https://www.chinabank.ph/",
                            "https://www.deals.bdo.com.ph/rewards/"}
ValidPromo(url, content) == content.str /\ HttpUrl(url)

\* The statements that follow the try/except of the URL loop, before the
\* delay: scrape_bpi line 96 appends the variable promo once more and raises
\* UnboundLocalError when no record was built yet; scrape_ew has no such line.
AfterTry(b, list, var) ==
  IF b = "bpi"
  THEN IF IsNone(var) THEN [raises |-> "UnboundLocalError", promos |-> list]
       ELSE [raises |-> "none", promos |-> Append(list, Get(var))]
  ELSE [raises |-> "none", promos |-> list]

\* scraper_bpi.py lines 77-99, scraper_ew.py lines 64-85: one pass of the URL loop.
SiteUrl ==
  /\ pc = "url"
  /\ issued' = issued \cup {"html"}
  /\ \E html \in FetchedHtml :
       LET url == promo_urls[i]
           content == ExtractContent(html)
           ok == ValidPromo(url, content)
           built == BankPromo(RecordRunId(scrape_id), bank, url, content.text)
           var == IF ok THEN Some(built) ELSE promo
           tail == AfterTry(bank, IF ok THEN Append(promos, built) ELSE promos, var) IN
       /\ html_content' = html
       /\ promo' = var
       /\ processed' = IF ok THEN Append(processed, url) ELSE processed
       /\ promos' = tail.promos
       /\ IF tail.raises # "none"
          THEN /\ Raise(tail.raises, "scrape_" \o bank)
               /\ UNCHANGED i
          ELSE /\ i' = i + 1
               /\ pc' = IF i < Len(promo_urls) THEN "url" ELSE "returned"
               /\ UNCHANGED error
  /\ UNCHANGED <<bank, scrape_id, j, promo_urls, promo_url_content, promo_hrefs,
                 links_seen>>
  /\ UNCHANGED bdo_vars

\* ======================================================================
\*  Category-crawl adapter (scraper_chinabank.py)
\* ======================================================================

\* The hrefs found in the gallery of category page c: the k-th is c-k.
Hrefs(c, n) ==
  [k \in 1..n |-> <<"https://www.chinabank.ph/", ToString(c) \o "-" \o ToString(k)>>]

\* Lines 95-127: where the crawl stands after category c: the next category
\* page, or the return.
AfterCategory(c) == IF c < NumCbankCategories THEN "category" ELSE "returned"

\* What get_html_content returns for a category page: None when the fetch
\* failed, else the page, of which only the gallery matters: missing, or
\* holding n links.
CategoryPages(most) ==
  {None, Some([gallery |-> None])} \cup {Some([gallery |-> Some(n)]) : n \in 0..most}

\* extract_cbank_href, lines 30-39: the hrefs of the gallery; any exception
\* (html is None, no gallery) is caught and the empty list is returned.
extract_cbank_href(html, c) ==
  IF IsNone(html) \/ IsNone(Get(html).gallery) THEN <<>>
  ELSE Hrefs(c, Get(Get(html).gallery))

\* Lines 95-101: the next category page is fetched and its hrefs extracted.
CbankCategory ==
  /\ pc = "category"
  /\ issued' = issued \cup {"category_page"}
  /\ \E html \in CategoryPages(MaxLinks - links_seen) :
       LET hrefs == extract_cbank_href(html, i + 1) IN
       /\ promo_url_content' = html
       /\ promo_hrefs' = hrefs
       /\ links_seen' = links_seen + Len(hrefs)
       /\ i' = i + 1
       /\ j' = 1
       /\ pc' = IF hrefs # <<>> THEN "link" ELSE AfterCategory(i + 1)
  /\ UNCHANGED <<bank, scrape_id, error, promos, promo_urls, html_content, promo,
                 processed>>
  /\ UNCHANGED bdo_vars

\* Lines 103-124: one pass of the link loop.
CbankLink ==
  /\ pc = "link"
  /\ issued' = issued \cup {"html"}
  /\ \E html \in FetchedHtml :
       LET promo_url == promo_hrefs[j]
           content == ExtractContent(html)
           ok == ValidPromo(promo_url, content)
           built == BankPromo(RecordRunId(scrape_id), bank, promo_url, content.text) IN
       /\ html_content' = html
       /\ promo' = IF ok THEN Some(built) ELSE promo
       /\ processed' = IF ok THEN Append(processed, promo_url) ELSE processed
       /\ promos' = IF ok THEN Append(promos, built) ELSE promos
  /\ j' = j + 1
  /\ pc' = IF j < Len(promo_hrefs) THEN "link" ELSE AfterCategory(i)
  /\ UNCHANGED <<bank, scrape_id, error, i, promo_urls, promo_url_content,
                 promo_hrefs, links_seen>>
  /\ UNCHANGED bdo_vars

Next ==
  \/ Start
  \/ BdoToken
  \/ BdoCategories
  \/ BdoFirstPage
  \/ BdoPage
  \/ BdoCampaignDetail
  \/ BdoRewardDetail
  \/ BdoParse
  \/ SiteSitemap
  \/ SiteUrl
  \/ CbankCategory
  \/ CbankLink

Spec == Init /\ [][Next]_vars

\* ======================================================================
\*  Normalization of one detail record: from the detail response to the
\*  record.  The second specification starts where scrape_bdo stands when one
\*  item was discovered and its detail response was received, the response
\*  being drawn from the sets below, and applies lines 459-468.
\* ======================================================================

\* The values of a plain-text field of a detail response whose text is `c`.
FieldTexts(c) == {Absent, None, Some(<<>>), Some(<<" ", c>>), Some(<<c>>)}
\* The values of a field that holds markup.
HtmlTexts(c) == {Absent, None, Some(<<>>), Some(<<"<p>", c, "<br>", " ">>)}
\* The values of the id field of a detail response for item `id`.
ResponseIds(id) == {Absent, Some(id)}

SectionLists ==
  {Absent, None, Some(<<>>),
   Some(<<Some([body_text |-> Some(<<"s">>)]), None, Some([body_text |-> Absent]),
          Some([body_text |-> Some(<<"<p>", "u">>)])>>)}

\* A campaign detail response (the object read at lines 279-290).
CampaignResponse(rid, nm, hl, sh, bt, ep, secs) ==
  [data |-> Some(
     [id |-> rid, name |-> nm,
      display_properties |-> Some(
        [landing_page |-> Some([headline |-> hl, sub_headline |-> sh,
                                body_text |-> bt, additional_sections |-> secs]),
         enrolment_page |-> Some([body_text |-> ep])])])]

CampaignSamples(id) ==
  {CampaignResponse(rid, nm, hl, sh, bt, ep, secs) :
     rid \in ResponseIds(id), nm \in FieldTexts("n"), hl \in FieldTexts("h"),
     sh \in {Absent, Some(<<>>), Some(<<"k">>)}, bt \in HtmlTexts("b"),
     ep \in {Absent, Some(<<"e">>)}, secs \in SectionLists}

AccordionLists ==
  {Absent, None, Some(<<>>),
   Some(<<None>>),
   Some(<<Some([title |-> Some(<<"t">>), body |-> Some(<<"<br>", "x">>)])>>),
   Some(<<Some([title |-> Some(<<"t", " ">>), body |-> Absent]),
          None,
          Some([title |-> Some(<<"v">>), body |-> Some(<<"y">>)])>>),
   Some(<<None, Some([title |-> Absent, body |-> Some(<<"y">>)])>>),
   Some(<<None, Some([title |-> Absent, body |-> Some(<<"y">>)]),
          Some([title |-> None, body |-> None]),
          Some([title |-> None, body |-> Some(<<"z">>)])>>)}

\* A reward detail response (the object read at lines 321-338).
RewardResponse(rid, nm, ds, acc) ==
  [data |-> Some([id |-> rid, name |-> nm, description |-> ds, accordions |-> acc])]

RewardSamples(id) ==
  {RewardResponse(rid, nm, ds, acc) :
     rid \in ResponseIds(id), nm \in FieldTexts("n"), ds \in HtmlTexts("d"),
     acc \in AccordionLists}

\* The one item discovered: the first item of the first page.
OneItem(ty) == [item_type |-> ty, item_id |-> ItemId(0, 1)]

\* scrape_bdo at line 459 after the discovery of one item of type `ty` and one
\* successful detail fetch that was answered with `body` and built the detail
\* record `out`.
AtParse(ty, body, out) ==
  /\ pc = "parse"
  /\ bank = "bdo"
  /\ scrape_id \in RunIds
  /\ error = NoError
  /\ promos = <<>>
  /\ issued = {"token", "categories", "page",
               IF ty = "Campaign" THEN "campaign" ELSE "reward"}
  /\ bearer_headers = Some(get_bdo_bearer_header([bearer_token |-> Some("tok")]))
  /\ ids = Some(<<1>>)
  /\ i = IF ty = "Campaign" THEN 2 ELSE 1
  /\ j = IF ty = "Campaign" THEN 1 ELSE 2
  /\ pages = 1
  /\ page_log = <<GetPage(1), GetPage(1), Sleep>>
  /\ all_items = <<OneItem(ty)>>
  /\ campaign_list = CampaignList(<<OneItem(ty)>>)
  /\ reward_list = RewardList(<<OneItem(ty)>>)
  /\ campaign_data = IF ty = "Campaign" THEN <<out>> ELSE <<>>
  /\ reward_data = IF ty = "Campaign" THEN <<>> ELSE <<out>>
  /\ detail_requests = 1
  /\ detail_failures = 0
  /\ detail_response = Some(body)
  /\ promo_urls = <<>>
  /\ html_content = None
  /\ promo = None
  /\ processed = <<>>
  /\ promo_url_content = None
  /\ promo_hrefs = <<>>
  /\ links_seen = 0

ParseInit ==
  \/ \E body \in CampaignSamples(ItemId(0, 1)) :
       AtParse("Campaign", body, Get(CampaignOutput(body, ItemId(0, 1)).output))
  \/ \E body \in RewardSamples(ItemId(0, 1)) :
       AtParse("Reward::Campaign", body, Get(RewardOutput(body).output))

ParseNext == BdoParse

ParseSpec == ParseInit /\ [][ParseNext]_vars

\* ======================================================================
\*  Partition, detail fetch and normalization of three discovered items.  The
\*  third specification starts where get_bdo_promo_items stands before the
\*  first request of the second and last category, the one page of the first
\*  category having held three objects.
\* ======================================================================

\* all_items after a page of three objects of any kind.
FirstCategoryItems ==
  {PageItems(PageEntries(kinds, 0)) : kinds \in [1..3 -> EntryKinds]}

PartitionInit ==
  /\ pc = "first_page"
  /\ bank = "bdo"
  /\ scrape_id \in RunIds
  /\ error = NoError
  /\ promos = <<>>
  /\ issued = {"token", "categories", "page"}
  /\ bearer_headers = Some(get_bdo_bearer_header([bearer_token |-> Some("tok")]))
  /\ ids = Some(<<1, 2>>)
  /\ i = 2
  /\ j = 1
  /\ pages = 1
  /\ page_log = <<GetPage(1), GetPage(1), Sleep>>
  /\ all_items \in FirstCategoryItems
  /\ campaign_list = <<>>
  /\ reward_list = <<>>
  /\ campaign_data = <<>>
  /\ reward_data = <<>>
  /\ detail_requests = 0
  /\ detail_failures = 0
  /\ detail_response = None
  /\ promo_urls = <<>>
  /\ html_content = None
  /\ promo = None
  /\ processed = <<>>
  /\ promo_url_content = None
  /\ promo_hrefs = <<>>
  /\ links_seen = 0

PartitionNext ==
  \/ BdoFirstPage
  \/ BdoPage
  \/ BdoCampaignDetail
  \/ BdoRewardDetail
  \/ BdoParse

PartitionSpec == PartitionInit /\ [][PartitionNext]_vars

\* ======================================================================
\*  Properties
\* ======================================================================

Returned == pc = "returned"
DetailSites == {"get_bdo_campaign_details", "get_bdo_reward_details"}

\* C1: every record of the list an orchestrator builds and returns (and the
\* record held in the loop variable promo) carries the run identifier that was
\* generated at the start of the invocation.
C1_SameRunId ==
  /\ \A k \in 1..Len(promos) : promos[k].scrape_id = scrape_id
  /\ ~IsNone(promo) => Get(promo).scrape_id = scrape_id

\* A BDO run that returned a campaign record and a reward record.
C1_Witness ==
  /\ Returned /\ bank = "bdo"
  /\ campaign_data # <<>> /\ reward_data # <<>>
  /\ Len(promos) = 2

\* The pages requested for the current category, in the order of the requests.
RECURSIVE RequestedPages(_)
RequestedPages(log) ==
  IF log = <<>> THEN <<>>
  ELSE IF Head(log).op = "get" THEN <<Head(log).page>> \o RequestedPages(Tail(log))
       ELSE RequestedPages(Tail(log))

\* The pass of the category loop for the category of page_log has ended: its
\* requests were issued and none of them ended the invocation.
CategoryDone ==
  /\ bank = "bdo"
  /\ page_log # <<>>
  /\ pc # "page"
  /\ ~(pc = "raised" /\ error.site \in {"fetch_json_get", "get_bdo_promo_items"})

\* A page request ended the invocation.
DiscoveryRaised ==
  /\ bank = "bdo"
  /\ page_log # <<>>
  /\ pc = "raised" /\ error.site \in {"fetch_json_get", "get_bdo_promo_items"}

OneToN(n) == [k \in 1..n |-> k]
\* The first request, which learns total_pages, then pages 1..n.
ProbeThenPages(n) == <<1>> \o OneToN(n)

\* C2 as stated: a category whose response reports total_pages = N (N >= 1)
\* gets exactly the N requests for pages 1..N, each page once.
C2_ExactlyNRequests ==
  (CategoryDone /\ pages >= 1) => RequestedPages(page_log) = OneToN(pages)

\* C2 as amended: a category whose first response reports total_pages = N >= 0
\* gets N + 1 requests: the first request for page 1, which only reads
\* total_pages, then pages 1..N in ascending order; while the loop runs, and
\* when a request fails and ends the invocation, the requests issued so far are
\* a prefix of that sequence.
C2_ProbeThenNRequests ==
  /\ CategoryDone => RequestedPages(page_log) = ProbeThenPages(pages)
  /\ (bank = "bdo" /\ pc = "page") => RequestedPages(page_log) = ProbeThenPages(j - 1)
  /\ DiscoveryRaised =>
       RequestedPages(page_log) = ProbeThenPages(Len(RequestedPages(page_log)) - 1)

\* A category with two pages whose pass ended: page 1 was requested twice.
C2_Witness ==
  /\ CategoryDone
  /\ pages = 2
  /\ RequestedPages(page_log) = <<1, 1, 2>>

\* The token response had no bearer_token field.
TokenMissing == bearer_headers = Some(<<"Bearer ", "None">>)

\* C3: when the token response has no bearer_token field, the invocation is
\* aborted: the orchestrator gets no further than the call that follows the
\* token acquisition, no request other than the token request is ever issued
\* and no record is produced.
C3_MissingTokenAborts ==
  TokenMissing => /\ issued \subseteq {"token"}
                  /\ promos = <<>>
                  /\ pc \in {"categories", "raised"}

\* C4: when category discovery extracts zero ids, the invocation ends with the
\* ValueError of get_bdo_promo_categories: no catalog-page and no detail
\* request is issued and no record is produced.
C4_NoCategoriesIsFatal ==
  (bank = "bdo" /\ ids = Some(<<>>)) =>
     /\ pc = "raised"
     /\ error = Err("ValueError", "get_bdo_promo_categories")
     /\ issued = {"token", "categories"}
     /\ promos = <<>>

\* A categories response was received and held no id.
C4_Witness ==
  /\ bank = "bdo" /\ ids = Some(<<>>)
  /\ pc = "raised"

\* C5: a failed detail fetch never ends the invocation; every recognized item
\* is requested, failed or not, and the records built are those of the
\* requests that did not fail: n - k records are returned for n items and k
\* failed fetches.
C5_DetailFailureSkipsOneItem ==
  bank = "bdo" =>
    /\ ~(pc = "raised" /\ error.type \in FetchErrors /\ error.site \in DetailSites)
    /\ pc = "campaigns" =>
         /\ detail_requests = i - 1
         /\ Len(campaign_data) = detail_requests - detail_failures
    /\ pc = "rewards" =>
         /\ detail_requests = Len(campaign_list) + j - 1
         /\ Len(campaign_data) + Len(reward_data) = detail_requests - detail_failures
    /\ pc \in {"parse", "returned"} =>
         /\ detail_requests = Len(campaign_list) + Len(reward_list)
         /\ Len(campaign_data) + Len(reward_data) = detail_requests - detail_failures
    /\ Returned =>
         Len(promos) = Len(campaign_list) + Len(reward_list) - detail_failures

\* Two campaigns were discovered, the detail fetch of the first failed, and the
\* list returned holds the record of the second.
C5_Witness ==
  /\ Returned /\ bank = "bdo"
  /\ Len(campaign_list) = 2 /\ reward_list = <<>>
  /\ detail_failures = 1
  /\ Len(promos) = 1
  /\ promos[1].promo_url = RewardsUrl(Some(campaign_list[2].item_id))

\* C6: the failure of one catalog page request (made with a proper token) is
\* caught and skipped: it never ends the invocation.
C6_PageFailureSkipped ==
  ~(DiscoveryRaised /\ ~TokenMissing /\ error.site = "fetch_json_get")

\* C7: missing or malformed pagination metadata in the first response of a
\* category (requested with a proper token) skips the category: it never ends
\* the invocation.
C7_BadMetaSkipsCategory ==
  ~(DiscoveryRaised /\ ~TokenMissing /\ error.site = "get_bdo_promo_items")

\* C8: the list scrape_bpi / scrape_ew returns holds exactly one record per URL
\* that was fetched and extracted successfully, in order, each with that URL
\* as its source URL.
C8_OneRecordPerUrl ==
  (bank \in {"bpi", "eastwest"} /\ Returned) =>
     /\ Len(promos) = Len(processed)
     /\ \A k \in 1..Len(promos) : promos[k].promo_url = processed[k]

\* C9: in scrape_bpi / scrape_ew a pass of the URL loop whose HTML fetch fails
\* does not end the invocation and emits no record.
C9_FetchFailureSkipsUrl ==
  [][(bank \in {"bpi", "eastwest"} /\ pc = "url" /\ html_content' = None)
       => (pc' # "raised" /\ promos' = promos)]_vars

NoAnchorPage == Some([anchor |-> None])

\* C10: in scrape_bpi / scrape_ew a pass of the URL loop whose page is fetched
\* but has no content anchor emits one record for that URL, with empty content.
C10_NoAnchorEmitsEmptyRecord ==
  [][(bank \in {"bpi", "eastwest"} /\ pc = "url" /\ html_content' = NoAnchorPage)
       => promos' = Append(promos, BankPromo(scrape_id, bank, promo_urls[i], <<>>))]_vars

\* ---- the content the records are said to have
\* The text of an optional field; a missing field has no text.
Text(o) == IF IsNone(o) THEN <<>> ELSE Get(o)

\* The fragments, each trimmed, that are not empty after trimming.
RECURSIVE TrimmedNonEmpty(_)
TrimmedNonEmpty(fragments) ==
  IF fragments = <<>> THEN <<>>
  ELSE IF Strip(Head(fragments)) = <<>> THEN TrimmedNonEmpty(Tail(fragments))
       ELSE <<Strip(Head(fragments))>> \o TrimmedNonEmpty(Tail(fragments))

BlankLineJoin(fragments) == Join(<<"\n", "\n">>, TrimmedNonEmpty(fragments))

RECURSIVE SectionTexts(_)
SectionTexts(sections) ==
  IF sections = <<>> THEN <<>>
  ELSE IF IsNone(Head(sections)) THEN SectionTexts(Tail(sections))
       ELSE <<html_to_text(PyGet(Get(Head(sections)).body_text))>>
              \o SectionTexts(Tail(sections))

\* The fragments of a campaign detail record, in field order.
CampaignFragments(entry) ==
  <<Text(entry.name), Text(entry.headline), Text(entry.sub_headline),
    html_to_text(entry.body_text), html_to_text(entry.enrolment_page_body_text)>>
  \o SectionTexts(Text(entry.additional_sections))

\* The fragments of a reward detail record, in field order; an accordion is
\* the fragment of its title, a line break and its body text.
CountedAccordions(entry) == 1..Cardinality(DOMAIN entry.accordions)
RewardFragments(entry) ==
  <<Text(entry.name), html_to_text(entry.description)>>
  \o [k \in CountedAccordions(entry) |->
        Text(entry.accordions[k].title) \o <<"\n">> \o html_to_text(entry.accordions[k].body)]

\* C11: the content of every record a BDO run returns is the blank-line join
\* of the fragments of its detail record that are not empty after trimming,
\* each fragment trimmed, in field order (and the empty string when there is
\* none).
C11_ContentIsTrimmedJoin ==
  (bank = "bdo" /\ Returned) =>
     /\ \A k \in 1..Len(campaign_data) :
          promos[k].promo_content = BlankLineJoin(CampaignFragments(campaign_data[k]))
     /\ \A k \in 1..Len(reward_data) :
          promos[Len(campaign_data) + k].promo_content
            = BlankLineJoin(RewardFragments(reward_data[k]))

\* ---- an empty field against a missing one
Missing(f) == f = Absent \/ f = None
Only(cond, v) == IF cond THEN {v} ELSE {}

\* The campaign responses that differ from `body` in one text field only, which
\* is missing (absent or null) in `body` and empty in them.
CampaignEmptied(body) ==
  LET d == Get(body.data)
      lp == Get(Get(d.display_properties).landing_page)
      ep == Get(Get(d.display_properties).enrolment_page).body_text
      nm == d.name
      hl == lp.headline
      sh == lp.sub_headline
      bt == lp.body_text
      secs == lp.additional_sections IN
  Only(Missing(nm), CampaignResponse(d.id, Some(<<>>), hl, sh, bt, ep, secs))
    \cup Only(Missing(hl), CampaignResponse(d.id, nm, Some(<<>>), sh, bt, ep, secs))
    \cup Only(Missing(sh), CampaignResponse(d.id, nm, hl, Some(<<>>), bt, ep, secs))
    \cup Only(Missing(bt), CampaignResponse(d.id, nm, hl, sh, Some(<<>>), ep, secs))
    \cup Only(Missing(secs), CampaignResponse(d.id, nm, hl, sh, bt, ep, Some(<<>>)))

\* The same for a reward response and its name and description.
RewardEmptied(body) ==
  LET d == Get(body.data) IN
  Only(Missing(d.name), RewardResponse(d.id, Some(<<>>), d.description, d.accordions))
    \cup Only(Missing(d.description), RewardResponse(d.id, d.name, Some(<<>>), d.accordions))

\* What detail fetch and normalization make of one campaign / reward response.
CampaignPipeline(body, campaign_id, uid) ==
  parse_bdo_campaign_output(<<Get(CampaignOutput(body, campaign_id).output)>>, uid)
RewardPipeline(body, uid) ==
  parse_bdo_reward_output(<<Get(RewardOutput(body).output)>>, uid)

\* How the run of this state ended: the exception, if any, and the records.
Outcome ==
  [raises |-> IF pc = "raised" THEN error.type ELSE "none", promos |-> promos]

\* Normalization has run on the one detail record of the run.
OneItemParsed ==
  /\ bank = "bdo" /\ pc \in {"returned", "raised"}
  /\ Len(all_items) = 1 /\ ~IsNone(detail_response)
  /\ Len(campaign_data) + Len(reward_data) = 1

\* C12: a detail response in which a text field (name, headline, sub-headline,
\* body text, description, additional sections) is missing gives the outcome of
\* the response in which that field is empty: the same records, and no
\* exception.
C12_MissingFieldIsEmptyField ==
  OneItemParsed =>
    /\ campaign_data # <<>> =>
         \A other \in CampaignEmptied(Get(detail_response)) :
            Outcome = CampaignPipeline(other, campaign_list[1].item_id, scrape_id)
    /\ reward_data # <<>> =>
         \A other \in RewardEmptied(Get(detail_response)) :
            Outcome = RewardPipeline(other, scrape_id)

\* ---- accordions
\* The accordion list of a reward response; a missing list has no entry.
ResponseAccordions(body) == Text(PyGet(Get(body.data).accordions))

\* No accordion of the list has a null title.
NoNullTitle(accordions) ==
  \A k \in 1..Len(accordions) :
     IsNone(accordions[k]) \/ Get(accordions[k]).title # None

\* What the accordions of a response contribute to content, in list order: a
\* null entry nothing, any other its title, a line break and its body text.
RECURSIVE AccordionTexts(_)
AccordionTexts(accordions) ==
  IF accordions = <<>> THEN <<>>
  ELSE (IF IsNone(Head(accordions)) THEN <<>>
        ELSE <<Text(PyGet(Get(Head(accordions)).title)) \o <<"\n">>
                 \o html_to_text(PyGet(Get(Head(accordions)).body))>>)
       \o AccordionTexts(Tail(accordions))

\* `tail` is empty, or `text` is `tail` or ends with a blank line followed by
\* `tail`.
EndsWithParagraphs(text, tail) ==
  \/ tail = <<>>
  \/ text = tail
  \/ /\ Len(text) >= Len(tail) + 2
     /\ SubSeq(text, Len(text) - Len(tail) - 1, Len(text)) = <<"\n", "\n">> \o tail

\* The detail record of the one reward of the run was built.
OneRewardFlattened ==
  /\ bank = "bdo" /\ Len(all_items) = 1 /\ Len(reward_data) = 1
  /\ ~IsNone(detail_response)

\* C13: for a reward response with N >= 0 accordions, the detail record holds
\* exactly the accordion indexes 1..N; a null accordion is stored with an empty
\* title and an empty body; normalization raises for no accordion list (only
\* for a missing name); and content ends with the paragraphs of accordions
\* 1..N in order, the ones after a null accordion included (stated for
\* responses without a null title).
C13_AccordionsReadInOrder ==
  OneRewardFlattened =>
    LET accordions == ResponseAccordions(Get(detail_response))
        entry == reward_data[1] IN
    /\ DOMAIN entry.accordions = 1..Len(accordions)
    /\ \A k \in 1..Len(accordions) :
         IsNone(accordions[k]) =>
           entry.accordions[k] = [title |-> Some(<<>>), body |-> Some(<<>>)]
    /\ pc = "raised" => Missing(Get(Get(detail_response).data).name)
    /\ (Returned /\ NoNullTitle(accordions)) =>
         EndsWithParagraphs(promos[1].promo_content,
                            BlankLineJoin(AccordionTexts(accordions)))

\* A reward with three accordions, the second null, was normalized: the first
\* and the third are in content.
C13_Witness ==
  /\ OneRewardFlattened /\ Returned
  /\ Len(ResponseAccordions(Get(detail_response))) = 3
  /\ IsNone(ResponseAccordions(Get(detail_response))[2])
  /\ promos[1].promo_content
       = <<"n", "\n", "\n", "d", "\n", "\n", "t", "\n", "\n", "v", "\n", "y">>

\* ---- partition
\* get_bdo_promo_items has returned its two lists.
Partitioned ==
  /\ bank = "bdo"
  /\ \/ pc \in {"campaigns", "rewards", "parse", "returned"}
     \/ pc = "raised" /\ error.site \in DetailSites
                                          \cup {"parse_bdo_campaign_output",
                                                "parse_bdo_reward_output"}

\* The items of `items` of type `ty`, in the order of `items`.
RECURSIVE ItemsOfType(_, _)
ItemsOfType(items, ty) ==
  IF items = <<>> THEN <<>>
  ELSE IF Head(items).item_type = ty
       THEN <<Head(items)>> \o ItemsOfType(Tail(items), ty)
       ELSE ItemsOfType(Tail(items), ty)

Elements(list) == {list[k] : k \in 1..Len(list)}

\* Item discovery ended with an exception.
DiscoveryError ==
  pc = "raised" /\ error.site \in {"fetch_json_get", "get_bdo_promo_items"}

\* C14: once item discovery has returned, the first list is the items of type
\* Campaign and the second the items of type Reward::Campaign, each in the
\* order of the combined list; the lists are disjoint, an item of another type
\* is in neither, and the step that partitions raises nothing: the discovery
\* of the last category ends in an exception only when a page request or the
\* pagination metadata fails.
C14_PartitionByType ==
  /\ Partitioned =>
       /\ campaign_list = ItemsOfType(all_items, "Campaign")
       /\ reward_list = ItemsOfType(all_items, "Reward::Campaign")
       /\ Elements(campaign_list) \cap Elements(reward_list) = {}
       /\ \A k \in 1..Len(all_items) :
            all_items[k].item_type \notin {"Campaign", "Reward::Campaign"} =>
              all_items[k] \notin Elements(campaign_list) \cup Elements(reward_list)
  /\ (bank = "bdo" /\ ~Partitioned /\ pc \notin {"first_page", "page"}) =>
       (campaign_list = <<>> /\ reward_list = <<>>
        /\ (pc = "raised" /\ all_items # <<>> => DiscoveryError))

\* A reward, an item of another type and a campaign were discovered in this
\* order and partitioned into two lists of one item.
C14_Witness ==
  /\ Partitioned
  /\ Len(all_items) = 3
  /\ all_items[1].item_type = "Reward::Campaign"
  /\ all_items[2].item_type = "Voucher"
  /\ all_items[3].item_type = "Campaign"
  /\ campaign_list = <<all_items[3]>>
  /\ reward_list = <<all_items[1]>>

\* ---- order of the records
\* The position in `list` of the item whose id reads `text`, 0 when there is
\* none (a record built from a response without id).
IndexOfId(list, text) ==
  IF \E k \in 1..Len(list) : ToString(list[k].item_id) = text
  THEN CHOOSE k \in 1..Len(list) : ToString(list[k].item_id) = text
  ELSE 0

\* The position of `url` in `list`.
IndexOfUrl(list, url) == CHOOSE k \in 1..Len(list) : list[k] = url

\* Every href the category pages can hold, in category-list order, then in the
\* order of the page.
RECURSIVE CbankHrefOrder(_)
CbankHrefOrder(c) ==
  IF c > NumCbankCategories THEN <<>>
  ELSE Hrefs(c, MaxLinks) \o CbankHrefOrder(c + 1)

\* Known positions (non-zero) increase along `pos`.
Increasing(pos) ==
  \A k, l \in 1..Len(pos) : (k < l /\ pos[k] # 0 /\ pos[l] # 0) => pos[k] < pos[l]
NonDecreasing(pos) ==
  \A k, l \in 1..Len(pos) : k < l => pos[k] <= pos[l]

RecordItems(order) ==
  [k \in 1..Len(promos) |-> IndexOfId(order, promos[k].promo_url[2])]

\* The order of the records of the three link-driven adapters: sitemap order
\* for scrape_bpi (which may repeat a record) and scrape_ew, category-list
\* order then href order for scrape_chinabank.
SiteRecordsInOrder ==
  /\ bank = "bpi" =>
       NonDecreasing([k \in 1..Len(promos) |-> IndexOfUrl(promo_urls, promos[k].promo_url)])
  /\ bank = "eastwest" =>
       Increasing([k \in 1..Len(promos) |-> IndexOfUrl(promo_urls, promos[k].promo_url)])
  /\ bank = "chinabank" =>
       Increasing([k \in 1..Len(promos) |->
                     IndexOfUrl(CbankHrefOrder(1), promos[k].promo_url)])

\* C15 as stated: the records of scrape_bdo are in the order in which their
\* items were discovered (and those of the other adapters in sitemap or
\* category and href order).
C15_RecordsInDiscoveryOrder ==
  /\ bank = "bdo" => Increasing(RecordItems(all_items))
  /\ SiteRecordsInOrder

\* C15 as amended: the records of scrape_bdo are in the order in which the
\* detail loops iterate: the Campaign items in discovery order, then the
\* Reward::Campaign items in discovery order (and those of the other adapters
\* in sitemap or category and href order).
C15_RecordsInIterationOrder ==
  /\ bank = "bdo" =>
       Increasing(RecordItems(ItemsOfType(all_items, "Campaign")
                                \o ItemsOfType(all_items, "Reward::Campaign")))
  /\ SiteRecordsInOrder

\* A reward was discovered before a campaign and the list returned holds the
\* record of the campaign before the record of the reward.
C15_Witness ==
  /\ bank = "bdo" /\ Returned
  /\ Len(all_items) = 2
  /\ all_items[1].item_type = "Reward::Campaign"
  /\ all_items[2].item_type = "Campaign"
  /\ Len(promos) = 2
  /\ promos[1].promo_url = RewardsUrl(Some(all_items[2].item_id))
  /\ promos[2].promo_url = RewardsUrl(Some(all_items[1].item_id))

\* ---- scrape_chinabank
\* The fetch of the page succeeded and the page holds the detail container.
Extracted(html) == ~IsNone(html) /\ ~IsNone(Get(html).anchor)

\* C16: in scrape_chinabank a category page whose fetch fails yields no link
\* and no record, and the crawl goes on with the next category; a link whose
\* fetch or extraction fails yields no record, and the crawl goes on with the
\* next link; a link whose fetch and extraction succeed yields exactly one
\* record, appended to the list, with the link as URL and the extracted text
\* as content; no pass raises, and the crawl returns only after the last
\* category.
C16_CbankSkipsFailures ==
  [][(bank = "chinabank" /\ pc \in {"category", "link"}) =>
       /\ pc' # "raised"
       /\ pc' = "returned" => i' = NumCbankCategories
       /\ pc = "category" =>
            /\ i' = i + 1
            /\ promos' = promos
            /\ promo_url_content' = None => (promo_hrefs' = <<>> /\ pc' # "link")
            /\ promo_hrefs' # <<>> => (pc' = "link" /\ j' = 1)
       /\ pc = "link" =>
            /\ j' = j + 1
            /\ (j < Len(promo_hrefs)) => pc' = "link"
            /\ IF Extracted(html_content')
               THEN promos' = Append(promos,
                                     [scrape_id |-> scrape_id, bank_name |-> "chinabank",
                                      promo_url |-> promo_hrefs[j],
                                      promo_content |-> get_text(Get(Get(html_content').anchor))])
               ELSE promos' = promos]_vars

\* The first category page held two links; the first link failed, the second
\* was fetched and extracted, and the list returned after the last category
\* holds the record of the second link only.
C16_Witness ==
  /\ bank = "chinabank" /\ Returned
  /\ i = NumCbankCategories
  /\ links_seen = 2
  /\ Len(promos) = 1
  /\ promos[1].promo_url = Hrefs(1, 2)[2]

\* ---- delay between page requests
\* C17: among the requests and delays of a category, in the order in which they
\* happen, no two page requests follow each other without a delay in between
\* (the first request, which learns total_pages, included).
C17_DelayBetweenPageRequests ==
  \A k \in 1..(Len(page_log) - 1) :
     ~(page_log[k].op = "get" /\ page_log[k + 1].op = "get")

\* ---- record URL
\* C18: the record of the one item of the run carries the URL made of the
\* template of the item type and the id of the discovered item: for a Campaign
\* the link built by the detail fetch, for a Reward::Campaign the rewards URL
\* of the item id, also when the detail response has no id field.
C18_UrlFromItemReference ==
  (OneItemParsed /\ Returned) =>
     /\ campaign_data # <<>> =>
          /\ promos[1].promo_url = campaign_data[1].link
          /\ promos[1].promo_url = CampaignLink(campaign_list[1].item_id)
     /\ reward_data # <<>> =>
          promos[1].promo_url = RewardsUrl(Some(reward_list[1].item_id))

====
